---- MODULE Spec2Model ----
(***************************************************************************)
(* The MarkdownWalker trait of src/lib.rs: the recursive visit, its match  *)
(* from node kind to handler, the default handler bodies and from_markdown.*)
(* The recursion of visit is an explicit stack of frames; one action is    *)
(* one step of one frame.                                                  *)
(***************************************************************************)
EXTENDS Naturals, Sequences, FiniteSets

\* ------------------------------------------------------------------ bounds

\* The largest tree (number of nodes, the root included) Init draws.
MaxNodes == 4

\* ---------------------------------------------------------- node taxonomy

\* The variants of NodeValue the match of visit names, in the match's order.
PayloadKinds ==
    { "Code", "CodeBlock", "EscapedTag", "FrontMatter", "FootnoteDefinition",
      "FootnoteReference", "Heading", "HtmlBlock", "HtmlInline", "Image",
      "Item", "Link", "List", "Math", "MultilineBlockQuote", "Raw",
      "TaskItem", "Text", "ShortCode", "WikiLink", "DescriptionItem",
      "Table", "TableRow" }

UnitKinds ==
    { "Document", "DescriptionList", "DescriptionTerm", "DescriptionDetails",
      "TableCell", "BlockQuote", "Emph", "Escaped", "LineBreak", "Paragraph",
      "SoftBreak", "SpoileredText", "Strikethrough", "Strong", "Subscript",
      "Superscript", "ThematicBreak", "Underline" }

Kinds == PayloadKinds \cup UnitKinds

\* The payload-free value of a node of a unit kind.
NoPayload == [of |-> 0]

\* ------------------------------------------------------- visitor contract

\* The trait's handler methods as declared: the node kind each one is
\* documented for, and whether its signature takes a payload reference.
TraitMethods ==
    { <<"visit_block_quote", "BlockQuote", FALSE>>,
      <<"visit_code", "Code", TRUE>>,
      <<"visit_code_block", "CodeBlock", TRUE>>,
      <<"visit_description_item", "DescriptionItem", TRUE>>,
      <<"visit_description_list", "DescriptionList", FALSE>>,
      <<"visit_description_term", "DescriptionTerm", FALSE>>,
      <<"visit_description_details", "DescriptionDetails", FALSE>>,
      <<"visit_document", "Document", FALSE>>,
      <<"visit_escaped", "Escaped", FALSE>>,
      <<"visit_escaped_tag", "EscapedTag", TRUE>>,
      <<"visit_emph", "Emph", FALSE>>,
      <<"visit_footnote_definition", "FootnoteDefinition", TRUE>>,
      <<"visit_footnote_reference", "FootnoteReference", TRUE>>,
      <<"visit_front_matter", "FrontMatter", TRUE>>,
      <<"visit_heading", "Heading", TRUE>>,
      <<"visit_html_block", "HtmlBlock", TRUE>>,
      <<"visit_html_inline", "HtmlInline", TRUE>>,
      <<"visit_image", "Image", TRUE>>,
      <<"visit_item", "Item", TRUE>>,
      <<"visit_link", "Link", TRUE>>,
      <<"visit_line_break", "LineBreak", FALSE>>,
      <<"visit_list", "List", TRUE>>,
      <<"visit_math", "Math", TRUE>>,
      <<"visit_multiline_block_quote", "MultilineBlockQuote", TRUE>>,
      <<"visit_paragraph", "Paragraph", FALSE>>,
      <<"visit_raw", "Raw", TRUE>>,
      <<"visit_short_code", "ShortCode", TRUE>>,
      <<"visit_soft_break", "SoftBreak", FALSE>>,
      <<"visit_spoilered_text", "SpoileredText", FALSE>>,
      <<"visit_strong", "Strong", FALSE>>,
      <<"visit_strikethrough", "Strikethrough", FALSE>>,
      <<"visit_subscript", "Subscript", FALSE>>,
      <<"visit_superscript", "Superscript", FALSE>>,
      <<"visit_table", "Table", TRUE>>,
      <<"visit_table_cell", "TableCell", FALSE>>,
      <<"visit_table_row", "TableRow", TRUE>>,
      <<"visit_task_item", "TaskItem", TRUE>>,
      <<"visit_text", "Text", TRUE>>,
      <<"visit_thematic_break", "ThematicBreak", FALSE>>,
      <<"visit_underline", "Underline", FALSE>>,
      <<"visit_wiki_link", "WikiLink", TRUE>> }

Handlers == { m[1] : m \in TraitMethods }

\* io::Result<()>
Ok == [tag |-> "Ok"]

Err(e) == [tag |-> "Err", err |-> e]

\* What an implementer's body of handler h does: "default" is h not
\* overridden; "record" pushes the call onto self and succeeds; "fail"
\* fails at once; "record_fail" pushes the call and then fails.
Behaviours == { "default", "record", "fail", "record_fail" }

\* The mutation an overriding handler h makes to self for one call.
Entry(h, node, payload) == [handler |-> h, node |-> node, payload |-> payload]

\* The error value a failing handler h builds for the node it was given.
Cause(h, node) == [handler |-> h, node |-> node]

\* A default body that is not inert: it leaves a mark on self.
DefaultBodyMarks(self) ==
    [self |-> Append(self, Entry("default", 0, [of |-> 0])), res |-> Ok]

\* The body every handler has unless the implementer overrides it.
DefaultBody(self) == [self |-> self, res |-> Ok]

\* One call of handler h of the walker w on (node, payload) with state self.
CallHandler(w, h, self, node, payload) ==
    CASE w[h] = "default"     -> DefaultBody(self)
      [] w[h] = "record"      ->
            [self |-> Append(self, Entry(h, node, payload)), res |-> Ok]
      [] w[h] = "fail"        ->
            [self |-> self, res |-> Err(Cause(h, node))]
      [] w[h] = "record_fail" ->
            [self |-> Append(self, Entry(h, node, payload)),
             res |-> Err(Cause(h, node))]

\* -------------------------------------------------------- dispatch engine

\* The match of visit: the handler named in the arm of each NodeValue.
MatchArm(kind) ==
    CASE kind = "Document"            -> "visit_document"
      [] kind = "Code"                -> "visit_code"
      [] kind = "CodeBlock"           -> "visit_code_block"
      [] kind = "EscapedTag"          -> "visit_escaped_tag"
      [] kind = "FrontMatter"         -> "visit_front_matter"
      [] kind = "FootnoteDefinition"  -> "visit_footnote_definition"
      [] kind = "FootnoteReference"   -> "visit_footnote_reference"
      [] kind = "Heading"             -> "visit_heading"
      [] kind = "HtmlBlock"           -> "visit_html_block"
      [] kind = "HtmlInline"          -> "visit_html_inline"
      [] kind = "Image"               -> "visit_image"
      [] kind = "Item"                -> "visit_item"
      [] kind = "Link"                -> "visit_link"
      [] kind = "List"                -> "visit_list"
      [] kind = "Math"                -> "visit_math"
      [] kind = "MultilineBlockQuote" -> "visit_multiline_block_quote"
      [] kind = "Raw"                 -> "visit_raw"
      [] kind = "TaskItem"            -> "visit_task_item"
      [] kind = "Text"                -> "visit_text"
      [] kind = "ShortCode"           -> "visit_short_code"
      [] kind = "WikiLink"            -> "visit_wiki_link"
      [] kind = "DescriptionItem"     -> "visit_description_item"
      [] kind = "DescriptionList"     -> "visit_description_list"
      [] kind = "DescriptionTerm"     -> "visit_description_term"
      [] kind = "DescriptionDetails"  -> "visit_description_details"
      [] kind = "Table"               -> "visit_table"
      [] kind = "TableRow"            -> "visit_table_row"
      [] kind = "TableCell"           -> "visit_table_cell"
      [] kind = "BlockQuote"          -> "visit_block_quote"
      [] kind = "Emph"                -> "visit_emph"
      [] kind = "Escaped"             -> "visit_escaped"
      [] kind = "LineBreak"           -> "visit_line_break"
      [] kind = "Paragraph"           -> "visit_paragraph"
      [] kind = "SoftBreak"           -> "visit_soft_break"
      [] kind = "SpoileredText"       -> "visit_spoilered_text"
      [] kind = "Strikethrough"       -> "visit_strikethrough"
      [] kind = "Strong"              -> "visit_strong"
      [] kind = "Subscript"           -> "visit_subscript"
      [] kind = "Superscript"         -> "visit_superscript"
      [] kind = "ThematicBreak"       -> "visit_thematic_break"
      [] kind = "Underline"           -> "visit_underline"

\* The payload handed to the handler: the payload bound by the arm's pattern
\* (the matched node's own), or none for a unit variant.
ArmPayload(arena, node) == arena.value[node].payload

\* The match with the Image arm calling visit_link, which takes the same
\* NodeLink payload.
DispatchImageAsLink(w, arena, self, node) ==
    LET k == arena.value[node].tag
        h == IF k = "Image" THEN "visit_link" ELSE MatchArm(k)
        p == ArmPayload(arena, node)
    IN  [call |-> Entry(h, node, p), out |-> CallHandler(w, h, self, node, p)]

\* The match with the Document arm calling visit_paragraph, which has the
\* same signature.
DispatchDocumentAsParagraph(w, arena, self, node) ==
    LET k == arena.value[node].tag
        h == IF k = "Document" THEN "visit_paragraph" ELSE MatchArm(k)
        p == ArmPayload(arena, node)
    IN  [call |-> Entry(h, node, p), out |-> CallHandler(w, h, self, node, p)]

\* The match statement of visit on one node: exactly the arm's handler call.
Dispatch(w, arena, self, node) ==
    LET h == MatchArm(arena.value[node].tag)
        p == ArmPayload(arena, node)
    IN  [call |-> Entry(h, node, p), out |-> CallHandler(w, h, self, node, p)]

\* A `?` replaced by a map_err that wraps the error in one of visit's own.
QuestionWraps(res) ==
    IF res.tag = "Err" THEN Err(Cause("visit", 0)) ELSE res

\* The `?` applied to an io::Result inside a function returning io::Result:
\* an Err leaves the function at once, carrying the same io::Error.
Question(res) == res

\* --------------------------------------------------------- tree and inputs

\* The elements of a finite set of numbers in ascending order.
RECURSIVE Ascending(_)
Ascending(S) ==
    IF S = {} THEN <<>>
    ELSE LET m == CHOOSE x \in S : \A y \in S : x <= y
         IN  <<m>> \o Ascending(S \ {m})

\* An arena tree of n nodes rooted at node 1: parent[i] is i's parent (0 for
\* the root), children[i] is i's children in document order.
Arena(n, parent, tags) ==
    [ n        |-> n,
      value    |-> [i \in 1..n |->
                      [tag |-> tags[i],
                       payload |-> IF tags[i] \in PayloadKinds
                                   THEN [of |-> i] ELSE NoPayload]],
      parent   |-> parent,
      children |-> [i \in 1..n |-> Ascending({j \in 1..n : parent[j] = i})] ]

\* Before from_markdown has parsed anything there is no tree.
NoArena == Arena(0, <<>>, <<>>)

\* node.children()
Children(arena, node) == arena.children[node]

\* The root parse_document returns, and the node a caller starts visit on.
Root == 1

\* The ways n nodes hang together: every node but the root has an earlier
\* node as its parent.
Shapes(n) ==
    { p \in [1..n -> 0..n] :
        /\ p[1] = 0
        /\ \A i \in 2..n : p[i] >= 1 /\ p[i] < i }

\* The kinds the trees of more than one node are drawn from.
Palette == { "Document", "Paragraph", "Image" }

\* The kinds of the constructs of a text: a document node is only the root.
BlockPalette == Palette \ { "Document" }

PaletteHandlers == { MatchArm(k) : k \in Palette }

BlockHandlers == { MatchArm(k) : k \in BlockPalette }

\* A text, by the constructs it holds: n constructs, parent[i] = 0 for a
\* top-level one.
Texts ==
    UNION { { [n |-> n, parent |-> p, tags |-> t] :
                p \in { q \in [1..n -> 0..n] : \A i \in 1..n : q[i] < i },
                t \in [1..n -> BlockPalette] } : n \in 0..(MaxNodes - 1) }

\* The empty text.
EmptyText == [n |-> 0, parent |-> <<>>, tags |-> <<>>]

\* comrak's parse_document: a tree rooted at a document node that holds the
\* constructs of the text in document order; it returns the root and cannot
\* fail.
parse_document(markdown) ==
    Arena(markdown.n + 1,
          [i \in 1..(markdown.n + 1) |->
              IF i = 1 THEN 0 ELSE markdown.parent[i - 1] + 1],
          [i \in 1..(markdown.n + 1) |->
              IF i = 1 THEN "Document" ELSE markdown.tags[i - 1]])

\* The trees a caller of visit holds: a single node of any kind, or a
\* subtree of a document, of up to MaxNodes nodes (from_markdown visits the
\* trees rooted at a document).
CallerArenas ==
    { Arena(1, <<0>>, <<k>>) : k \in Kinds } \cup
    UNION { { Arena(n, p, t) : p \in Shapes(n), t \in [1..n -> BlockPalette] } :
            n \in 2..MaxNodes }

\* Self::default() of the implementer: nothing recorded.
Default == <<>>

\* What a caller's own accumulator already holds when it calls visit.
Prior == Entry("prior", 0, NoPayload)

CallerSelf == << Prior >>

\* No accumulator exists before from_markdown builds one.
NoSelf == << Entry("none", 0, NoPayload) >>

\* The implementers overriding only handlers among H, in every combination
\* of bodies.
WalkersOver(H) ==
    { [h \in Handlers |-> IF h \in H THEN c[h] ELSE "default"] :
        c \in [H -> Behaviours] }

\* The implementers giving all the handlers the same body.
UniformWalkers == { [h \in Handlers |-> b] : b \in Behaviours }

\* ------------------------------------------------------------------- state

VARIABLES
    entry,      \* the entry point the caller uses: "from_markdown" or "visit"
    markdown,   \* the text given to from_markdown
    arena,      \* the parsed tree
    walker,     \* the implementer: the body of each handler
    pc,         \* "start", "visit" (a visit is running), "done"
    stack,      \* the frames of visit in flight, the innermost last
    this,       \* the accumulator
    ret,        \* what the visit frame that returned last returned
    result,     \* what the entry point returned to the caller
    calls,      \* history: every handler call made, in order
    acc0,       \* history: the accumulator as the outermost visit received it
    defaults,   \* history: how many times Self::default() ran
    roots       \* history: the nodes the entry point called visit on

vars == << entry, markdown, arena, walker, pc, stack, this, ret, result,
           calls, acc0, defaults, roots >>

None == [tag |-> "None"]

\* Ok(this) of from_markdown
OkSelf(self) == [tag |-> "Ok", self |-> self]

\* A visit frame: the node, and where the frame stands: 0 at the match, k
\* before the visit of the k-th child.
Frame(node, next) == [node |-> node, next |-> next]

Top == stack[Len(stack)]

Pop(s) == SubSeq(s, 1, Len(s) - 1)

InitCommon ==
    /\ pc = "start"
    /\ stack = <<>>
    /\ ret = None
    /\ result = None
    /\ calls = <<>>
    /\ defaults = 0
    /\ roots = <<>>

\* The caller hands a text to from_markdown.
InitFromMarkdown ==
    /\ entry = "from_markdown"
    /\ markdown \in Texts
    /\ arena = NoArena
    /\ walker \in WalkersOver(PaletteHandlers)
    /\ this = NoSelf
    /\ acc0 = NoSelf

\* The caller hands a node of its own tree and its own accumulator to visit.
InitVisit ==
    /\ entry = "visit"
    /\ markdown = EmptyText
    /\ arena \in CallerArenas
    /\ walker \in IF arena.n = 1 THEN UniformWalkers
                 ELSE WalkersOver(BlockHandlers)
    /\ this = CallerSelf
    /\ acc0 = this

Init == InitCommon /\ (InitFromMarkdown \/ InitVisit)

\* ----------------------------------------------------------------- actions

\* from_markdown up to its call of visit: parse, Self::default(), visit(nodes).
FromMarkdownEnter(md) ==
    [arena |-> parse_document(md), this |-> Default, node |-> Root]

from_markdown_call ==
    /\ entry = "from_markdown" /\ pc = "start"
    /\ LET e == FromMarkdownEnter(markdown)
       IN  /\ arena' = e.arena
           /\ this' = e.this
           /\ acc0' = e.this
           /\ stack' = << Frame(e.node, 0) >>
           /\ roots' = Append(roots, e.node)
    /\ defaults' = defaults + 1
    /\ pc' = "visit"
    /\ UNCHANGED << entry, markdown, walker, ret, result, calls >>

\* The caller's own call of visit on the root of its tree.
visit_call ==
    /\ entry = "visit" /\ pc = "start"
    /\ stack' = << Frame(Root, 0) >>
    /\ roots' = Append(roots, Root)
    /\ pc' = "visit"
    /\ UNCHANGED << entry, markdown, arena, walker, this, ret, result, calls,
                    acc0, defaults >>

\* The handler's result dropped instead of tried with `?`.
AfterMatchIgnores(s, res) ==
    [stack |-> [s EXCEPT ![Len(s)].next = 1], ret |-> ret]

\* What the innermost frame does after its handler returned res: go on to
\* the children, or leave with the error.
AfterMatch(s, res) ==
    IF res.tag = "Ok"
    THEN [stack |-> [s EXCEPT ![Len(s)].next = 1], ret |-> ret]
    ELSE [stack |-> Pop(s), ret |-> Question(res)]

\* The match of the innermost frame: the handler of the node's kind runs.
visit_match ==
    /\ pc = "visit" /\ stack # <<>> /\ ret.tag # "Err"
    /\ Top.next = 0
    /\ LET d == Dispatch(walker, arena, this, Top.node)
           a == AfterMatch(stack, d.out.res)
       IN  /\ this' = d.out.self
           /\ calls' = Append(calls, d.call)
           /\ stack' = a.stack
           /\ ret' = a.ret
    /\ UNCHANGED << entry, markdown, arena, walker, pc, result, acc0,
                    defaults, roots >>

\* The loop replaced by a visit of the first child alone.
ChildStepFirstOnly(s, kids) ==
    Append([s EXCEPT ![Len(s)].next = Len(kids) + 1], Frame(kids[1], 0))

\* The loop over node.reverse_children().
ChildStepReversed(s, kids) ==
    Append([s EXCEPT ![Len(s)].next = @ + 1],
           Frame(kids[Len(kids) + 1 - s[Len(s)].next], 0))

\* The loop body recursing on node instead of child.
ChildStepSelf(s, kids) ==
    Append([s EXCEPT ![Len(s)].next = @ + 1], Frame(s[Len(s)].node, 0))

\* One turn of `for child in node.children()`: the frame of the next child.
ChildStep(s, kids) ==
    Append([s EXCEPT ![Len(s)].next = @ + 1], Frame(kids[s[Len(s)].next], 0))

visit_child ==
    /\ pc = "visit" /\ stack # <<>> /\ ret.tag # "Err"
    /\ Top.next >= 1 /\ Top.next <= Len(Children(arena, Top.node))
    /\ stack' = ChildStep(stack, Children(arena, Top.node))
    /\ UNCHANGED << entry, markdown, arena, walker, pc, this, ret, result,
                    calls, acc0, defaults, roots >>

\* The loop is over: the frame returns Ok(()).
visit_return ==
    /\ pc = "visit" /\ stack # <<>> /\ ret.tag # "Err"
    /\ Top.next > Len(Children(arena, Top.node))
    /\ stack' = Pop(stack)
    /\ ret' = Ok
    /\ UNCHANGED << entry, markdown, arena, walker, pc, this, result, calls,
                    acc0, defaults, roots >>

\* `self.visit(child)?` got an Err from the child: the frame leaves with it.
visit_question ==
    /\ pc = "visit" /\ stack # <<>> /\ ret.tag = "Err"
    /\ stack' = Pop(stack)
    /\ ret' = Question(ret)
    /\ UNCHANGED << entry, markdown, arena, walker, pc, this, result, calls,
                    acc0, defaults, roots >>

\* from_markdown ending in Ok(Self::default()) instead of Ok(this).
FromMarkdownResultFresh(res, self) ==
    IF res.tag = "Err" THEN Question(res) ELSE OkSelf(<<>>)

\* `this.visit(nodes)?; Ok(this)`
FromMarkdownResult(res, self) ==
    IF res.tag = "Err" THEN Question(res) ELSE OkSelf(self)

from_markdown_return ==
    /\ entry = "from_markdown" /\ pc = "visit" /\ stack = <<>>
    /\ result' = FromMarkdownResult(ret, this)
    /\ pc' = "done"
    /\ UNCHANGED << entry, markdown, arena, walker, stack, this, ret, calls,
                    acc0, defaults, roots >>

\* The outermost visit has returned to the caller that called it.
caller_return ==
    /\ entry = "visit" /\ pc = "visit" /\ stack = <<>>
    /\ result' = ret
    /\ pc' = "done"
    /\ UNCHANGED << entry, markdown, arena, walker, stack, this, ret, calls,
                    acc0, defaults, roots >>

Next ==
    \/ from_markdown_call
    \/ visit_call
    \/ visit_match
    \/ visit_child
    \/ visit_return
    \/ visit_question
    \/ from_markdown_return
    \/ caller_return

Spec == Init /\ [][Next]_vars

\* A caller's direct call of visit alone, without from_markdown. The
\* traversal is one synchronous thread of control: it runs whenever it can.
NextVisit ==
    \/ visit_call
    \/ visit_match
    \/ visit_child
    \/ visit_return
    \/ visit_question
    \/ caller_return

InitDirect == InitCommon /\ InitVisit

VisitSpec == InitDirect /\ [][NextVisit]_vars /\ WF_vars(NextVisit)

\* visit as the function it is: the result and the accumulator of a call of
\* visit on node with accumulator self (visit_children is its for loop from
\* the k-th child on).
RECURSIVE visit(_, _, _, _), visit_children(_, _, _, _, _)
visit(w, a, self, node) ==
    LET d == Dispatch(w, a, self, node).out
    IN  IF d.res.tag = "Err"
        THEN [self |-> d.self, res |-> Question(d.res)]
        ELSE visit_children(w, a, d.self, Children(a, node), 1)

visit_children(w, a, self, kids, k) ==
    IF k > Len(kids)
    THEN [self |-> self, res |-> Ok]
    ELSE LET r == visit(w, a, self, kids[k])
         IN  IF r.res.tag = "Err"
             THEN [self |-> r.self, res |-> Question(r.res)]
             ELSE visit_children(w, a, r.self, kids, k + 1)

\* ------------------------------------------------- vocabulary of the claims

\* The handler the trait declares for each node kind.
DeclaredHandler ==
    [k \in Kinds |-> (CHOOSE m \in TraitMethods : m[2] = k)[1]]

DeclaredFor(k) == DeclaredHandler[k]

\* Whether the trait declares a handler with a payload parameter.
DeclaredPayload ==
    [h \in Handlers |-> (CHOOSE m \in TraitMethods : m[1] = h)[3]]

TakesPayload(h) == DeclaredPayload[h]

Nodes == 1..arena.n

KindOf(n) == arena.value[n].tag

\* The nodes dispatched so far, in the order of their dispatch.
CallNodes == [i \in 1..Len(calls) |-> calls[i].node]

\* The place of x in the sequence s that holds it.
IndexOf(s, x) == CHOOSE i \in 1..Len(s) : s[i] = x

IsPrefix(s, t) == Len(s) <= Len(t) /\ s = SubSeq(t, 1, Len(s))

\* The pre-order, document-order listing of the subtree of n.
RECURSIVE PreOrder(_, _), PreOrderOf(_, _)
PreOrder(a, n) == <<n>> \o PreOrderOf(a, a.children[n])

PreOrderOf(a, kids) ==
    IF kids = <<>> THEN <<>>
    ELSE PreOrder(a, Head(kids)) \o PreOrderOf(a, Tail(kids))

\* The listing of the whole tree (nothing before there is a tree).
Listing == IF arena.n = 0 THEN <<>> ELSE PreOrder(arena, Root)

\* The proper ancestors of n, by the parent relation.
RECURSIVE Ancestors(_, _)
Ancestors(a, n) ==
    IF a.parent[n] = 0 THEN {}
    ELSE {a.parent[n]} \cup Ancestors(a, a.parent[n])

\* n and its descendants.
Subtree(a, n) == { m \in 1..a.n : m = n \/ n \in Ancestors(a, m) }

\* The depth of n: 1 for the root.
Depth(a, n) == Cardinality(Ancestors(a, n)) + 1

\* Whether the body the walker gives handler h fails, and whether it mutates.
Fails(h) == walker[h] \in { "fail", "record_fail" }

Mutates(h) == walker[h] \in { "record", "record_fail" }

\* The handlers the implementer overrides.
Overridden == { h \in Handlers : walker[h] # "default" }

Succeeded == pc = "done" /\ result.tag = "Ok"

\* ------------------------------------------------------------------ claims

\* C1: a visit of the root that returns success has invoked the handler of
\* each kind K exactly as many times as the tree holds nodes of kind K, and
\* has dispatched every node of the tree exactly once.
C1_HandlerCounts ==
    Succeeded =>
        /\ \A k \in Kinds :
              Cardinality({ i \in 1..Len(calls) :
                              calls[i].handler = DeclaredFor(k) })
                = Cardinality({ n \in Nodes : KindOf(n) = k })
        /\ \A n \in Nodes :
              Cardinality({ i \in 1..Len(calls) : calls[i].node = n }) = 1

\* C1's case: a successful visit of a tree with a node of two children, a
\* grandchild of the root, and two nodes of one kind.
C1_Witness ==
    /\ Succeeded
    /\ arena.n >= 4
    /\ \E n \in Nodes : Len(arena.children[n]) >= 2
    /\ \E n \in Nodes : Depth(arena, n) >= 3
    /\ Cardinality({ n \in Nodes : KindOf(n) = "Image" }) = 2

\* C2: the nodes dispatched are always a prefix of the pre-order listing of
\* the tree, the whole of it once the visit succeeded: a node is dispatched
\* after all its ancestors, and a node B after the whole subtree of every
\* sibling A listed before B; no handler changes that order.
C2_DocumentOrder ==
    /\ IsPrefix(CallNodes, Listing)
    /\ Succeeded => CallNodes = Listing
    /\ \A i \in 1..Len(calls) :
          \A x \in Ancestors(arena, calls[i].node) :
             \E j \in 1..(i - 1) : calls[j].node = x
    /\ \A i \in 2..Len(calls) :
          LET b == calls[i].node
              kids == arena.children[arena.parent[b]]
              earlier == { calls[j].node : j \in 1..(i - 1) }
          IN  \A k \in 1..(IndexOf(kids, b) - 1) :
                 Subtree(arena, kids[k]) \subseteq earlier

\* C2's case: the second child of the root is dispatched after a grandchild
\* below the first child, though the grandchild is the younger node.
C2_Witness ==
    /\ arena.n >= 4
    /\ Len(arena.children[Root]) >= 2
    /\ arena.children[arena.children[Root][1]] # <<>>
    /\ arena.children[Root][2] < arena.children[arena.children[Root][1]][1]
    /\ \E i \in 1..Len(calls) : calls[i].node = arena.children[Root][2]
    /\ \E h \in Handlers : walker[h] = "record"

\* The calls among cs whose handler's body mutates the accumulator.
Mutations(cs) ==
    LET M(c) == Mutates(c.handler) IN SelectSeq(cs, M)

\* C3: once the handler called for node N has failed, that call is the last
\* call ever made: no node listed after N is dispatched, and the accumulator
\* is the one the visit began with plus the mutations of the handlers of
\* the nodes before N plus what N's own handler did before it failed.
C3_ShortCircuit ==
    \A i \in 1..Len(calls) :
       Fails(calls[i].handler) =>
          /\ i = Len(calls)
          /\ LET l == Listing
                 at == IndexOf(l, calls[i].node)
             IN  \A k \in (at + 1)..Len(l) :
                    \A j \in 1..Len(calls) : calls[j].node # l[k]
          /\ this = acc0 \o Mutations(SubSeq(calls, 1, i - 1))
                         \o (IF Mutates(calls[i].handler)
                             THEN <<calls[i]>> ELSE <<>>)

\* C3's case: the visit is over, a handler failed at a node that has a
\* child and a later sibling, after an earlier handler had mutated the
\* accumulator, and the failing handler mutated it too.
C3_Witness ==
    /\ pc = "done"
    /\ calls # <<>>
    /\ LET c == calls[Len(calls)]
       IN  /\ walker[c.handler] = "record_fail"
           /\ arena.children[c.node] # <<>>
           /\ \E p \in Nodes : \E k \in 1..Len(arena.children[p]) :
                 k > 1 /\ arena.children[p][k - 1] = c.node
    /\ Len(this) = Len(acc0) + 2

\* The nodes whose handler fails, and the error of the first of them in
\* the listing.
FailingNodes == { n \in Nodes : Fails(DeclaredFor(KindOf(n))) }

FirstFailing ==
    LET l == Listing
        f == FailingNodes
    IN  l[CHOOSE i \in 1..Len(l) :
             /\ l[i] \in f
             /\ \A j \in 1..(i - 1) : l[j] \notin f]

FirstError == Err(Cause(DeclaredFor(KindOf(FirstFailing)), FirstFailing))

\* C5: from the failure of a handler on, every frame of visit returns the
\* error of the first failing handler of the listing, unchanged, and so
\* does the entry point: a tree with a failing node never yields success.
C5_FirstError ==
    LET failed == \E i \in 1..Len(calls) : Fails(calls[i].handler)
    IN  /\ failed => ret = FirstError
        /\ ret.tag = "Err" => failed /\ ret = FirstError
        /\ (pc = "done" /\ FailingNodes # {}) => result = FirstError

\* C5's case: from_markdown returned the error of a handler that failed two
\* frames below the root, in a tree with a second failing node listed after
\* it.
C5_Witness ==
    /\ entry = "from_markdown" /\ pc = "done"
    /\ result.tag = "Err"
    /\ Depth(arena, result.err.node) >= 3
    /\ \E n \in FailingNodes :
          IndexOf(Listing, n) > IndexOf(Listing, result.err.node)

\* C4: every handler call made is the call of the handler the trait declares
\* for the kind of the node it is given, with that node's own payload if the
\* handler takes one and none otherwise; a node past its match has had
\* exactly one handler call, and none of a handler of another kind.
C4_DispatchExact ==
    /\ \A i \in 1..Len(calls) :
          LET c == calls[i]
          IN  /\ c.node \in Nodes
              /\ c.handler = DeclaredFor(KindOf(c.node))
              /\ TakesPayload(c.handler) <=> KindOf(c.node) \in PayloadKinds
              /\ c.payload = arena.value[c.node].payload
              /\ TakesPayload(c.handler) => c.payload = [of |-> c.node]
              /\ Mutates(c.handler) =>
                    \E j \in 1..Len(this) : this[j] = c
    /\ \A f \in 1..Len(stack) :
          stack[f].next >= 1 =>
             Cardinality({ i \in 1..Len(calls) :
                             calls[i].node = stack[f].node }) = 1
    /\ \A i \in 1..Len(this) :
          this[i].handler \in Handlers =>
             this[i].handler = DeclaredFor(KindOf(this[i].node))

\* C4's case: an Image node went through the match of an implementer that
\* overrides visit_image and visit_link alike.
C4_Witness ==
    /\ arena.n = 1 /\ KindOf(Root) = "Image"
    /\ walker["visit_image"] = "record" /\ walker["visit_link"] = "record"
    /\ pc = "done"
    /\ this = acc0 \o << Entry("visit_image", Root, [of |-> Root]) >>

\* C6: the accumulator changes during a visit only in the match of a node
\* whose handler is overridden, and an implementer that overrides nothing
\* ends every visit with success and the accumulator it began with.
C6_DefaultsInert ==
    [][ /\ (pc = "visit" /\ this' # this) =>
              /\ stack # <<>>
              /\ Top.next = 0
              /\ DeclaredFor(KindOf(Top.node)) \in Overridden
        /\ (Overridden = {} /\ pc' = "done") =>
              /\ result'.tag = "Ok"
              /\ this' = acc0' ]_vars

\* C6's case: an implementer overriding visit_image alone has visited a tree
\* holding a document, a paragraph and an image.
C6_Witness ==
    /\ pc = "done"
    /\ Overridden = { "visit_image" }
    /\ { "Document", "Paragraph", "Image" } \subseteq { KindOf(n) : n \in Nodes }
    /\ Len(this) = Len(acc0) + Cardinality({ n \in Nodes : KindOf(n) = "Image" })

\* C7: from_markdown builds one default accumulator, calls visit once, on
\* the root of the tree parsed from its text, and returns success exactly
\* when visit on that root with a fresh default accumulator does, with the
\* accumulator that visit leaves.
C7_FromMarkdownIsVisit ==
    (entry = "from_markdown" /\ pc = "done") =>
        LET v == visit(walker, parse_document(markdown), Default, Root)
        IN  /\ defaults = 1
            /\ roots = << Root >>
            /\ arena = parse_document(markdown)
            /\ acc0 = Default
            /\ result.tag = "Ok" <=> v.res.tag = "Ok"
            /\ v.res.tag = "Ok" => result = OkSelf(v.self)

\* C7's case: from_markdown returned an accumulator that two handlers had
\* mutated.
C7_Witness ==
    /\ entry = "from_markdown" /\ pc = "done"
    /\ result.tag = "Ok"
    /\ Len(result.self) >= 2
    /\ arena.n >= 3

\* C8: from_markdown on the empty text visits a tree that is a document
\* node without children: one handler call, of visit_document, and the
\* default accumulator returned unless visit_document is overridden.
C8_EmptyInput ==
    (entry = "from_markdown" /\ markdown = EmptyText /\ pc = "done") =>
        /\ arena.n = 1
        /\ KindOf(Root) = "Document"
        /\ Children(arena, Root) = <<>>
        /\ Len(calls) = 1
        /\ calls[1].handler = "visit_document"
        /\ walker["visit_document"] = "default" => result = OkSelf(Default)

\* C8's case: from_markdown on the empty text has returned, for an
\* implementer whose other handlers mutate and fail.
C8_Witness ==
    /\ entry = "from_markdown" /\ markdown = EmptyText /\ pc = "done"
    /\ walker["visit_document"] = "default"
    /\ walker["visit_image"] = "record_fail"
    /\ walker["visit_paragraph"] = "record"
    /\ result = OkSelf(Default)

\* The depth of the deepest node.
Height ==
    IF arena.n = 0 THEN 0
    ELSE LET ds == { Depth(arena, n) : n \in Nodes }
         IN  CHOOSE d \in ds : \A e \in ds : e <= d

\* The frames of visit in flight are as many as the innermost one's node is
\* deep, never more than the tree is.
FrameDepth ==
    /\ stack # <<>> => Len(stack) = Depth(arena, Top.node)
    /\ Len(stack) <= Height

\* C10: every call of visit on a root returns to its caller, and until then
\* the frames in flight are as many as the node being dispatched is deep.
C10_Termination == []FrameDepth /\ <>(pc = "done")

\* C10's case: a node three deep is at its match, three frames in flight.
C10_Witness ==
    /\ Len(stack) = 3
    /\ Top.next = 0
    /\ Depth(arena, Top.node) = 3

====
